---- MODULE Spec2Model ----
(***************************************************************************)
(* State-machine model of the search / RAG page of the Next.js frontend    *)
(* (SearchPage, src/unnamed/part_007) together with the EventSource it     *)
(* obtains from generateStreamingRagAnswer (src/unnamed/part_000).         *)
(*                                                                         *)
(* JavaScript values are modelled as follows.  A string is a sequence of   *)
(* words ("" is <<>>), a citation list is a sequence of citation ids, and  *)
(* the value undefined is the one-element sequence <<"<undefined>">>,      *)
(* which is no string of the model.  The data of a server-sent event is    *)
(* its text after lexing: a sequence of tokens (punctuation, string        *)
(* literals, bare words); JSONParse parses that sequence.                  *)
(*                                                                         *)
(* Scheduling follows the JavaScript event loop: a handler runs to its     *)
(* next await; the continuation of an await on an already settled promise  *)
(* is a microtask and runs before any other task (pc = "awaitStream"       *)
(* blocks every other action); user input, EventSource events and HTTP     *)
(* responses are tasks and interleave freely.                              *)
(***************************************************************************)
EXTENDS Integers, Sequences, FiniteSets, TLC

\* ------------------------------------------------------------------ bounds
MaxSessions == 2      \* handleRagQuery invocations in one page life
MaxQueue == 2         \* events queued and not yet dispatched, all connections together
MaxAnswerLen == 2     \* the server stops sending deltas beyond this length
MaxPieces == 6        \* markers and characters a snippet is made of
MaxRequests == 4      \* calls of search() through the rendered controls
MaxCalls == 2         \* direct calls of the two search handlers
MaxPageArg == 2       \* largest page number of a direct call
MaxTabSearches == 1   \* searches made from the search tab while the RAG tab is at work

\* ------------------------------------------------------------ JS values
undefined == <<"<undefined>">>

\* String(v): the coercion `+` applies to a non-string operand
ToStr(v) == IF v = undefined THEN <<"undefined">> ELSE v

\* prev + chunk.content (part_007:189)
Plus(x, y) == ToStr(x) \o ToStr(y)

\* ------------------------------------------------------- wire payloads
P(x) == [t |-> "punct", v |-> x]
S(x) == [t |-> "str", v |-> x]
W(x) == [t |-> "word", v |-> x]

\* the end-of-stream sentinel  [DONE]
DONE == <<P("["), W("DONE"), P("]")>>

EmptyFields == [k \in {} |-> <<>>]

Put(f, k, v) == [x \in (DOMAIN f) \cup {k} |-> IF x = k THEN v ELSE f[x]]

\* index of the first "]" of toks, 0 when there is none
FirstClose(toks) ==
  IF \E j \in 1..Len(toks) : toks[j] = P("]")
  THEN CHOOSE j \in 1..Len(toks) :
         /\ toks[j] = P("]")
         /\ \A k \in 1..(j - 1) : toks[k] # P("]")
  ELSE 0

\* the members of an object: key, value, key, value, ...; a value is a
\* string literal or an array of string literals
RECURSIVE ParseMembers(_, _)
ParseMembers(toks, acc) ==
  IF toks = <<>> THEN [ok |-> TRUE, fields |-> acc]
  ELSE IF Len(toks) < 2 \/ toks[1].t # "str" THEN [ok |-> FALSE, fields |-> acc]
  ELSE LET key == toks[1].v
           rest == Tail(toks)
       IN IF rest[1].t = "str"
          THEN ParseMembers(Tail(rest), Put(acc, key, <<rest[1].v>>))
          ELSE IF rest[1] = P("[")
          THEN LET c == FirstClose(rest)
               IN IF c = 0 \/ \E k \in 2..(c - 1) : rest[k].t # "str"
                  THEN [ok |-> FALSE, fields |-> acc]
                  ELSE ParseMembers(SubSeq(rest, c + 1, Len(rest)),
                                    Put(acc, key, [k \in 1..(c - 2) |-> rest[k + 1].v]))
          ELSE [ok |-> FALSE, fields |-> acc]

\* JSON.parse(event.data): ok = FALSE stands for the SyntaxError it throws
JSONParse(d) ==
  IF d = <<W("null")>>
  THEN [ok |-> TRUE, kind |-> "null", fields |-> EmptyFields]
  ELSE IF Len(d) = 1 /\ d[1].t = "str"
  THEN [ok |-> TRUE, kind |-> "primitive", fields |-> EmptyFields]
  ELSE IF Len(d) >= 2 /\ d[1] = P("[") /\ d[Len(d)] = P("]")
  THEN [ok |-> \A k \in 2..(Len(d) - 1) : d[k].t = "str",
        kind |-> "array", fields |-> EmptyFields]
  ELSE IF Len(d) >= 2 /\ d[1] = P("{") /\ d[Len(d)] = P("}")
  THEN LET m == ParseMembers(SubSeq(d, 2, Len(d) - 1), EmptyFields)
       IN [ok |-> m.ok, kind |-> "object", fields |-> m.fields]
  ELSE [ok |-> FALSE, kind |-> "none", fields |-> EmptyFields]

\* chunk.<k>: undefined when the property is absent
Get(chunk, k) == IF k \in DOMAIN chunk.fields THEN chunk.fields[k] ELSE undefined

\* ------------------------------------------------- what the server pushes
Deltas == {"a", "b"}

AnswerMsg(c) == <<P("{"), S("type"), S("answer"), S("content"), S(c), P("}")>>

\* the final chunk: the rewritten answer text together with the citation list
CitationsMsg(c, l) ==
  <<P("{"), S("type"), S("citations"), S("content"), S(c), S("citations"), P("[")>>
    \o [k \in 1..Len(l) |-> S(l[k])] \o <<P("]"), P("}")>>

\* a citations chunk that carries the list alone
CitationsOnlyMsg(l) ==
  <<P("{"), S("type"), S("citations"), S("citations"), P("[")>>
    \o [k \in 1..Len(l) |-> S(l[k])] \o <<P("]"), P("}")>>

ErrorMsg == <<P("{"), S("type"), S("error"), S("content"), S("boom"), P("}")>>

UnknownTypeMsg == <<P("{"), S("type"), S("answer-replace"), S("content"), S("z"), P("}")>>

NoTypeMsg == <<P("{"), P("}")>>

NullMsg == <<W("null")>>

TruncatedMsg == <<P("{"), S("type")>>

Payloads ==
  {DONE, ErrorMsg, UnknownTypeMsg, NoTypeMsg, NullMsg, TruncatedMsg,
   CitationsMsg("c", <<"c1">>), CitationsOnlyMsg(<<"c1", "c2">>)}
    \cup {AnswerMsg(d) : d \in Deltas}

\* JSON.parse of each payload, computed once
Parsed == [d \in Payloads |-> JSONParse(d)]

\* the events an EventSource queues: messages, and the transport error
Events ==
  {[kind |-> "message", data |-> d] : d \in Payloads}
    \cup {[kind |-> "error", data |-> <<>>]}

IsDelta(e) == e.kind = "message" /\ \E d \in Deltas : e.data = AnswerMsg(d)

\* the responses of POST /search/rag
RagResponses == {[answer |-> <<"r">>, citations |-> <<"c1">>]}

\* ---------------------------------------------------------------- state
VARIABLES
  mounted,             \* the page component is mounted
  ragLoading,          \* useState ragLoading        (part_007:58)
  isStreaming,         \* useState isStreaming       (part_007:59)
  ragResponse,         \* useState ragResponse: <<>> is null, else <<response>>
  streamingAnswer,     \* useState streamingAnswer   (part_007:56)
  streamingCitations,  \* useState streamingCitations (part_007:57)
  streamCleanupRef,    \* 0 is null, i is the closeStream closure of session i
  sessions,            \* one record per handleRagQuery invocation, in order
  pc,                  \* "idle", or "awaitStream": handleRagQuery at line 158
  obs                  \* what the live handler of the newest session was fed

vars == <<mounted, ragLoading, isStreaming, ragResponse, streamingAnswer,
          streamingCitations, streamCleanupRef, sessions, pc, obs>>

\* obs of a session that was fed nothing yet
ObsInit ==
  [deltas  |-> <<>>,      \* contents of the answer chunks before the one citations chunk
   nrep    |-> 0,         \* citations chunks fed (2 stands for two or more)
   content |-> <<>>,      \* content of the last citations chunk
   list    |-> <<>>,      \* citations of the last citations chunk
   after   |-> <<>>,      \* contents of the answer chunks after it
   last    |-> "none"]    \* class of the event fed last

RagInit ==
  /\ mounted = TRUE
  /\ ragLoading = FALSE
  /\ isStreaming = FALSE
  /\ ragResponse = <<>>
  /\ streamingAnswer = <<>>
  /\ streamingCitations = <<>>
  /\ streamCleanupRef = 0
  /\ sessions = <<>>
  /\ pc = "idle"
  /\ obs = ObsInit

\* ------------------------------------------------------------- sessions
\* the record of one handleRagQuery invocation.  open, msgListener,
\* errListener, closeCalls and queued (the events queued on it and not yet
\* dispatched) describe its EventSource; inflight its POST
\* /search/rag request.  phase, dropped and othersOpenAtStart are history:
\* phase names the path that ended the session, dropped says an event was
\* discarded undelivered, othersOpenAtStart says another EventSource was
\* open when this one was constructed.
NewSession(streaming, othersOpen) ==
  [streaming         |-> streaming,
   open              |-> streaming,
   msgListener       |-> FALSE,
   errListener       |-> FALSE,
   closeCalls        |-> 0,
   queued            |-> 0,
   inflight          |-> ~streaming,
   phase             |-> "Connecting",
   dropped           |-> FALSE,
   othersOpenAtStart |-> streaming /\ othersOpen]

Terminal == {"Completed", "Failed", "Cancelled"}

\* closeStream without the two removeEventListener calls
CloseStream_KeepListeners(ss, i, ph) ==
  [ss EXCEPT ![i].open = FALSE, ![i].closeCalls = @ + 1, ![i].phase = ph]

\* closeStream that only clears the ref
CloseStream_RefOnly(ss, i, ph) == [ss EXCEPT ![i].phase = ph]

\* closeStream, lines 167-169; ph names the caller's path
CloseStream(ss, i, ph) ==
  [ss EXCEPT ![i].open = FALSE,
             ![i].closeCalls = @ + 1,
             ![i].msgListener = FALSE,
             ![i].errListener = FALSE,
             ![i].phase = ph]

\* closeStream that leaves the ref as it is
RefAfterClose_Keep(ref) == ref

\* closeStream, line 170: streamCleanupRef.current = null
RefAfterClose(ref) == 0

\* handleRagQuery without the cleanup of lines 145-148
CleanupExisting_Skip(ss, ref) == ss

\* handleRagQuery, lines 145-148: clean up any existing stream first
CleanupExisting(ss, ref) ==
  IF ref # 0 THEN CloseStream(ss, ref, "Cancelled") ELSE ss

\* variant: the effect returns no cleanup, so unmounting leaves the stream alone
CleanupOnUnmount_Skip(ss, ref) == ss

\* the effect cleanup, lines 66-68
CleanupOnUnmount(ss, ref) ==
  IF ref # 0 THEN CloseStream(ss, ref, "Cancelled") ELSE ss

\* ------------------------------------------------------------- handlers
\* handleMessage without the sentinel test: every payload goes to JSON.parse
IsDone_Never(data) == FALSE

\* handleMessage, line 178
IsDone(data) == data = DONE

\* handleMessage whose citations branch leaves the answer alone
HandleChunk_CitationsKeepAnswer(chunk, st) ==
  LET type == Get(chunk, "type")
  IN IF type = <<"answer">>
     THEN [answer |-> Plus(st.answer, Get(chunk, "content")),
           citations |-> st.citations, close |-> FALSE]
     ELSE IF type = <<"citations">>
     THEN [answer |-> st.answer,
           citations |-> Get(chunk, "citations"), close |-> FALSE]
     ELSE IF type = <<"error">>
     THEN [answer |-> st.answer, citations |-> st.citations, close |-> TRUE]
     ELSE [answer |-> st.answer, citations |-> st.citations, close |-> FALSE]

\* handleMessage whose citations branch appends the content
HandleChunk_CitationsAppend(chunk, st) ==
  LET type == Get(chunk, "type")
  IN IF type = <<"answer">>
     THEN [answer |-> Plus(st.answer, Get(chunk, "content")),
           citations |-> st.citations, close |-> FALSE]
     ELSE IF type = <<"citations">>
     THEN [answer |-> Plus(st.answer, Get(chunk, "content")),
           citations |-> Get(chunk, "citations"), close |-> FALSE]
     ELSE IF type = <<"error">>
     THEN [answer |-> st.answer, citations |-> st.citations, close |-> TRUE]
     ELSE [answer |-> st.answer, citations |-> st.citations, close |-> FALSE]

\* handleMessage whose error branch clears the partial answer
HandleChunk_ErrorClears(chunk, st) ==
  LET type == Get(chunk, "type")
  IN IF type = <<"answer">>
     THEN [answer |-> Plus(st.answer, Get(chunk, "content")),
           citations |-> st.citations, close |-> FALSE]
     ELSE IF type = <<"citations">>
     THEN [answer |-> Get(chunk, "content"),
           citations |-> Get(chunk, "citations"), close |-> FALSE]
     ELSE IF type = <<"error">>
     THEN [answer |-> <<>>, citations |-> <<>>, close |-> TRUE]
     ELSE [answer |-> st.answer, citations |-> st.citations, close |-> FALSE]

\* handleMessage, lines 188-196, for a chunk whose properties can be read;
\* st is [ragLoading, answer, citations]
HandleChunk(chunk, st) ==
  LET type == Get(chunk, "type")
  IN IF type = <<"answer">>
     THEN [answer |-> Plus(st.answer, Get(chunk, "content")),
           citations |-> st.citations, close |-> FALSE]
     ELSE IF type = <<"citations">>
     THEN [answer |-> Get(chunk, "content"),
           citations |-> Get(chunk, "citations"), close |-> FALSE]
     ELSE IF type = <<"error">>
     THEN [answer |-> st.answer, citations |-> st.citations, close |-> TRUE]
     ELSE [answer |-> st.answer, citations |-> st.citations, close |-> FALSE]

\* handleMessage, lines 177-201
HandleMessage(data, st) ==
  IF IsDone(data)
  THEN [ragLoading |-> FALSE, answer |-> st.answer, citations |-> st.citations,
        close |-> TRUE, phase |-> "Completed"]
  ELSE LET chunk == Parsed[data]
       IN IF ~chunk.ok
          \* JSON.parse throws before line 186; the catch closes the stream
          THEN [ragLoading |-> st.ragLoading, answer |-> st.answer,
                citations |-> st.citations, close |-> TRUE, phase |-> "Failed"]
          ELSE IF chunk.kind = "null"
          \* chunk.type of null throws a TypeError after line 186
          THEN [ragLoading |-> FALSE, answer |-> st.answer,
                citations |-> st.citations, close |-> TRUE, phase |-> "Failed"]
          ELSE LET r == HandleChunk(chunk, st)
               IN [ragLoading |-> FALSE, answer |-> r.answer,
                   citations |-> r.citations, close |-> r.close,
                   phase |-> IF r.close THEN "Failed" ELSE "Streaming"]

\* handleError, lines 204-209
HandleError(st) ==
  [ragLoading |-> FALSE, answer |-> st.answer, citations |-> st.citations,
   close |-> TRUE, phase |-> "Failed"]

\* the record of what a live handler was fed, extended by event e; deltas
\* is kept as long as the answer chunks were followed by one citations chunk
\* and no answer chunk after it
ObsStep(o, e) ==
  IF e.kind = "error" THEN [o EXCEPT !.last = "transport"]
  ELSE IF e.data = DONE THEN [o EXCEPT !.last = "done"]
  ELSE LET c == Parsed[e.data]
           type == Get(c, "type")
       IN IF ~c.ok THEN [o EXCEPT !.last = "invalid"]
          ELSE IF type = <<"answer">>
          THEN IF o.nrep = 0
               THEN [o EXCEPT !.deltas = @ \o Get(c, "content"), !.last = "answer"]
               ELSE [o EXCEPT !.after = @ \o Get(c, "content"), !.deltas = <<>>,
                              !.last = "answer"]
          ELSE IF type = <<"citations">>
          THEN [o EXCEPT !.nrep = IF @ = 0 THEN 1 ELSE 2,
                         !.deltas = IF o.nrep = 0 THEN @ ELSE <<>>,
                         !.content = Get(c, "content"),
                         !.list = Get(c, "citations"),
                         !.after = <<>>,
                         !.last = "citations"]
          ELSE IF type = <<"error">> THEN [o EXCEPT !.last = "error"]
          ELSE [o EXCEPT !.last = "untyped"]

\* -------------------------------------------------------------- actions
\* the number of events queued on the connections of ss
RECURSIVE Queued(_)
Queued(ss) == IF ss = <<>> THEN 0 ELSE Head(ss).queued + Queued(Tail(ss))

\* a variant of handleRagQuery without the resets of lines 150-152
SubmitRag_NoReset(streaming) ==
  /\ mounted /\ pc = "idle" /\ ~ragLoading
  /\ Len(sessions) < MaxSessions
  /\ LET cleaned == CleanupExisting(sessions, streamCleanupRef)
         othersOpen == \E k \in 1..Len(cleaned) : cleaned[k].open
     IN sessions' = Append(cleaned, NewSession(streaming, othersOpen))
  /\ streamCleanupRef' = 0
  /\ ragLoading' = TRUE
  /\ isStreaming' = streaming
  /\ pc' = IF streaming THEN "awaitStream" ELSE "idle"
  /\ obs' = ObsInit
  /\ UNCHANGED <<mounted, ragResponse, streamingAnswer, streamingCitations>>

\* The RAG form calls handleRagQuery; its fields and its button are disabled
\* while ragLoading (part_007:327, SearchForm.tsx:146,268).  The handler runs
\* to the await of line 158 (streaming) or of line 216 (non-streaming).
SubmitRag(streaming) ==
  /\ mounted /\ pc = "idle" /\ ~ragLoading
  /\ Len(sessions) < MaxSessions
  /\ LET cleaned == CleanupExisting(sessions, streamCleanupRef)
         othersOpen == \E k \in 1..Len(cleaned) : cleaned[k].open
     IN sessions' = Append(cleaned, NewSession(streaming, othersOpen))
  /\ streamCleanupRef' = 0
  /\ ragLoading' = TRUE
  /\ ragResponse' = <<>>
  /\ streamingAnswer' = <<>>
  /\ streamingCitations' = <<>>
  /\ isStreaming' = streaming
  /\ pc' = IF streaming THEN "awaitStream" ELSE "idle"
  /\ obs' = ObsInit
  /\ UNCHANGED mounted

\* handleRagQuery resumes after line 158: lines 166-213
ResumeStream ==
  /\ pc = "awaitStream"
  /\ LET i == Len(sessions)
     IN /\ streamCleanupRef' = i
        /\ sessions' = [sessions EXCEPT ![i].msgListener = TRUE,
                                        ![i].errListener = TRUE]
  /\ pc' = "idle"
  /\ UNCHANGED <<mounted, ragLoading, isStreaming, ragResponse,
                 streamingAnswer, streamingCitations, obs>>

\* an event of the server, or a transport failure, arrives on an open
\* connection and is queued as a task; nothing reads what it carries before
\* it is dispatched, so the model draws its content at dispatch
ServerSend(i) ==
  /\ pc = "idle"
  /\ sessions[i].open
  /\ Queued(sessions) < MaxQueue
  /\ sessions' = [sessions EXCEPT ![i].queued = @ + 1]
  /\ UNCHANGED <<mounted, ragLoading, isStreaming, ragResponse,
                 streamingAnswer, streamingCitations, streamCleanupRef, pc, obs>>

\* connection i has a listener for events of this kind: a closed EventSource
\* dispatches nothing, and an event reaches only the listener registered for
\* its kind
Listening(s, kind) ==
  s.open /\ (IF kind = "message" THEN s.msgListener ELSE s.errListener)

\* the event loop runs the task of the oldest queued event, e, of connection
\* i, and the listener handles it.  React discards the state updates of an
\* unmounted component.
Dispatch(i, e) ==
  /\ pc = "idle"
  /\ sessions[i].queued > 0
  /\ Listening(sessions[i], e.kind)
  /\ IsDelta(e) => Len(streamingAnswer) < MaxAnswerLen
  /\ LET st == [ragLoading |-> ragLoading, answer |-> streamingAnswer,
                citations |-> streamingCitations]
         r == IF e.kind = "message" THEN HandleMessage(e.data, st) ELSE HandleError(st)
         popped == [sessions EXCEPT ![i].queued = @ - 1]
     IN /\ sessions' = IF r.close THEN CloseStream(popped, i, r.phase)
                       ELSE [popped EXCEPT ![i].phase = r.phase]
        /\ streamCleanupRef' = IF r.close THEN RefAfterClose(streamCleanupRef)
                               ELSE streamCleanupRef
        /\ ragLoading' = IF mounted THEN r.ragLoading ELSE ragLoading
        /\ streamingAnswer' = IF mounted THEN r.answer ELSE streamingAnswer
        /\ streamingCitations' = IF mounted THEN r.citations ELSE streamingCitations
        /\ obs' = IF i = Len(sessions) THEN ObsStep(obs, e) ELSE obs
  /\ UNCHANGED <<mounted, isStreaming, ragResponse, pc>>

\* the task of the oldest queued event of connection i runs and finds no
\* listener for its kind: the event is discarded
Discard(i, kind) ==
  /\ pc = "idle"
  /\ sessions[i].queued > 0
  /\ ~Listening(sessions[i], kind)
  /\ sessions' = [sessions EXCEPT ![i].queued = @ - 1, ![i].dropped = TRUE]
  /\ UNCHANGED <<mounted, ragLoading, isStreaming, ragResponse, streamingAnswer,
                 streamingCitations, streamCleanupRef, pc, obs>>

\* the page unmounts: the effect cleanup of lines 66-68 runs
Unmount ==
  /\ mounted /\ pc = "idle"
  /\ mounted' = FALSE
  /\ sessions' = CleanupOnUnmount(sessions, streamCleanupRef)
  /\ streamCleanupRef' = IF streamCleanupRef # 0 THEN RefAfterClose(streamCleanupRef)
                         ELSE streamCleanupRef
  /\ UNCHANGED <<ragLoading, isStreaming, ragResponse, streamingAnswer,
                 streamingCitations, pc, obs>>

\* a variant that feeds the response into the state of the streaming path
RagResponseOk_IntoStreaming(i, resp) ==
  /\ pc = "idle"
  /\ sessions[i].inflight
  /\ sessions' = [sessions EXCEPT ![i].inflight = FALSE, ![i].phase = "Completed"]
  /\ streamingAnswer' = IF mounted THEN resp.answer ELSE streamingAnswer
  /\ streamingCitations' = IF mounted THEN resp.citations ELSE streamingCitations
  /\ ragLoading' = IF mounted THEN FALSE ELSE ragLoading
  /\ UNCHANGED <<mounted, isStreaming, ragResponse, streamCleanupRef, pc, obs>>

\* generateRagAnswer resolves: lines 222-223
RagResponseOk(i, resp) ==
  /\ pc = "idle"
  /\ sessions[i].inflight
  /\ sessions' = [sessions EXCEPT ![i].inflight = FALSE, ![i].phase = "Completed"]
  /\ ragResponse' = IF mounted THEN <<resp>> ELSE ragResponse
  /\ ragLoading' = IF mounted THEN FALSE ELSE ragLoading
  /\ UNCHANGED <<mounted, isStreaming, streamingAnswer, streamingCitations,
                 streamCleanupRef, pc, obs>>

\* generateRagAnswer rejects: the catch of lines 225-229
RagResponseFail(i) ==
  /\ pc = "idle"
  /\ sessions[i].inflight
  /\ sessions' = [sessions EXCEPT ![i].inflight = FALSE, ![i].phase = "Failed"]
  /\ ragLoading' = IF mounted THEN FALSE ELSE ragLoading
  /\ UNCHANGED <<mounted, isStreaming, ragResponse, streamingAnswer,
                 streamingCitations, streamCleanupRef, pc, obs>>


\* ================================================== highlight parser
\* a string is the sequence of its characters
MarkOpen == <<"<", "m", "a", "r", "k", ">">>
MarkClose == <<"<", "/", "m", "a", "r", "k", ">">>

\* the pieces the snippets of the model are made of
Pieces == {<<"x">>, <<"y">>, MarkOpen, MarkClose}

RECURSIVE Flatten(_)
Flatten(ps) == IF ps = <<>> THEN <<>> ELSE Head(ps) \o Flatten(Tail(ps))

\* the snippets renderHighlightedSnippet is called with
Snippets ==
  {Flatten(ps) : ps \in UNION {[1..n -> Pieces] : n \in 0..MaxPieces}}

\* String.prototype.indexOf: 0-based index of the first occurrence, or -1
IndexOf(s, pat) ==
  LET at == {i \in 0..(Len(s) - Len(pat)) : SubSeq(s, i + 1, i + Len(pat)) = pat}
  IN IF at = {} THEN -1 ELSE CHOOSE i \in at : \A k \in at : i <= k

\* String.prototype.substring(a, b): each index is clamped to 0..length and
\* the two are swapped when a > b; it never throws
Substring(s, a, b) ==
  LET clamp(n) == IF n < 0 THEN 0 ELSE IF n > Len(s) THEN Len(s) ELSE n
      lo == IF clamp(a) <= clamp(b) THEN clamp(a) ELSE clamp(b)
      hi == IF clamp(a) <= clamp(b) THEN clamp(b) ELSE clamp(a)
  IN SubSeq(s, lo + 1, hi)

\* substring(a): to the end of the string
SubstringFrom(s, a) == Substring(s, a, Len(s))

VARIABLES
  snippet,       \* the argument of renderHighlightedSnippet
  currentText,   \* let currentText  (MainNavigation.tsx:268)
  parts,         \* const parts      (MainNavigation.tsx:267)
  ppc            \* "idle": no call; "call": called; "loop": at the while
                 \* test of line 273; "done": the call returned

parserVars == <<snippet, currentText, parts, ppc>>

\* markStart and markEnd are recomputed from currentText before every test
\* of the loop condition (lines 269-270, 292-293)
markStart == IndexOf(currentText, MarkOpen)
markEnd == IndexOf(currentText, MarkClose)

\* variants of the loop
Continue_StartOnly(ms, me) == ms # -1

WhileBody_KeepMarkers(text, ps, ms, me) ==
  [parts |-> (IF ms > 0
              THEN Append(ps, [text |-> Substring(text, 0, ms), highlighted |-> FALSE])
              ELSE ps)
             \o <<[text |-> Substring(text, ms, me + 7), highlighted |-> TRUE]>>,
   currentText |-> SubstringFrom(text, me + 7)]

WhileBody_NoAdvance(text, ps, ms, me) ==
  [parts |-> Append(ps, [text |-> Substring(text, ms + 6, me), highlighted |-> TRUE]),
   currentText |-> text]

WhileBody_AlwaysBefore(text, ps, ms, me) ==
  [parts |-> Append(ps, [text |-> Substring(text, 0, ms), highlighted |-> FALSE])
             \o <<[text |-> Substring(text, ms + 6, me), highlighted |-> TRUE]>>,
   currentText |-> SubstringFrom(text, me + 7)]

\* the loop condition, line 273
Continue(ms, me) == ms # -1 /\ me # -1

\* one iteration of the loop, lines 274-294
WhileBody(text, ps, ms, me) ==
  [parts |-> (IF ms > 0
              THEN Append(ps, [text |-> Substring(text, 0, ms), highlighted |-> FALSE])
              ELSE ps)
             \o <<[text |-> Substring(text, ms + 6, me), highlighted |-> TRUE]>>,
   currentText |-> SubstringFrom(text, me + 7)]

\* no call of the parser is in progress
ParserIdle ==
  /\ snippet = <<>> /\ currentText = <<>> /\ parts = <<>> /\ ppc = "idle"

\* renderHighlightedSnippet is called: lines 265-270
ParseBegin ==
  /\ ppc = "call"
  /\ currentText' = snippet
  /\ parts' = <<>>
  /\ ppc' = "loop"
  /\ UNCHANGED snippet

\* the loop condition holds and the body runs once
ParseIterate ==
  /\ ppc = "loop"
  /\ Continue(markStart, markEnd)
  /\ LET r == WhileBody(currentText, parts, markStart, markEnd)
     IN /\ parts' = r.parts
        /\ currentText' = r.currentText
  /\ UNCHANGED <<snippet, ppc>>

\* the loop ends; the rest, when it is not the empty string, is pushed as
\* plain text and the parts are rendered: lines 297-304
ParseFinish ==
  /\ ppc = "loop"
  /\ ~Continue(markStart, markEnd)
  /\ parts' = IF currentText # <<>>
              THEN Append(parts, [text |-> currentText, highlighted |-> FALSE])
              ELSE parts
  /\ ppc' = "done"
  /\ UNCHANGED <<snippet, currentText>>


\* ================================================ paginated search
\* what the search form submits: query, searchType, documentIds
\* (SearchForm.tsx onFormSubmit; documentIds is undefined when none is picked)
SearchInputs ==
  {[query |-> <<"q1">>, searchType |-> "hybrid", documentIds |-> undefined],
   [query |-> <<"q2">>, searchType |-> "keyword", documentIds |-> <<"d1">>]}

\* useState initial values, part_007:40-47
InitialSearchParams ==
  [query |-> <<>>, searchType |-> "hybrid", documentIds |-> undefined]
pageSize == 10
includeHighlight == TRUE

\* the totals the backend reports (the backend is not part of the sources)
Totals == {0, 15, 25}

\* Math.ceil(a / b) for a >= 0, b > 0
Ceil(a, b) == (a + b - 1) \div b

\* the number of items of page n of a listing of total items
ItemsOnPage(total, n, size) ==
  IF n >= 1 /\ (n - 1) * size < total
  THEN (IF total - (n - 1) * size < size THEN total - (n - 1) * size ELSE size)
  ELSE 0

VARIABLES
  searchParams,       \* useState searchParams      (part_007:40)
  page,               \* useState page              (part_007:45)
  searchResponse,     \* useState searchResponse: <<>> is null, else <<response>>
  paginationLoading,  \* useState paginationLoading (part_007:51)
  searchLoading,      \* useState searchLoading     (part_007:52)
  requests,           \* one record per call of search(), in the order of the calls
  shown,              \* the call whose response searchResponse holds, 0 when null
  toasts              \* calls of toast.error by the two search handlers

searchVars == <<searchParams, page, searchResponse, paginationLoading,
                searchLoading, requests, shown, toasts>>

allVars == <<vars, searchVars, parserVars>>

SearchInit ==
  /\ searchParams = InitialSearchParams
  /\ page = 1
  /\ searchResponse = <<>>
  /\ paginationLoading = FALSE
  /\ searchLoading = FALSE
  /\ requests = <<>>
  /\ shown = 0
  /\ toasts = 0

\* useMemo totalPages: lines 124-127
totalPages ==
  IF searchResponse # <<>> THEN Ceil(searchResponse[1].total, pageSize) ELSE 0

\* the body search() posts (part_000:126-133) with the handler that awaits
\* it; pendingAtCall: the calls still awaited when this one is made;
\* pagesAtCall: totalPages when it is made
NewRequest(kind, params, n) ==
  [kind |-> kind, query |-> params.query, searchType |-> params.searchType,
   documentIds |-> params.documentIds, page |-> n, pageSize |-> pageSize,
   includeHighlight |-> includeHighlight, status |-> "pending",
   pendingAtCall |-> {k \in 1..Len(requests) : requests[k].status = "pending"},
   pagesAtCall |-> totalPages]

\* a SearchResponse of the backend to request r (part_003:11-17): total is
\* the number of matches, results the items of the page asked for
Response(r, total) ==
  [query |-> r.query, searchType |-> r.searchType, total |-> total,
   results |-> [k \in 1..ItemsOnPage(total, r.page, r.pageSize)
                  |-> [query |-> r.query, page |-> r.page, index |-> k]]]

\* variants of the handlers
SearchRejected_ClearsResults(i) ==
  /\ requests[i].status = "pending"
  /\ requests' = [requests EXCEPT ![i].status = "failed"]
  /\ toasts' = toasts + 1
  /\ searchResponse' = <<>>
  /\ shown' = 0
  /\ IF requests[i].kind = "search"
     THEN searchLoading' = FALSE /\ UNCHANGED paginationLoading
     ELSE paginationLoading' = FALSE /\ UNCHANGED searchLoading
  /\ UNCHANGED <<searchParams, page>>

HandlePaginatedSearch_FormDefaults(pageNumber) ==
  /\ paginationLoading' = TRUE
  /\ requests' = Append(requests, NewRequest("page", InitialSearchParams, pageNumber))
  /\ UNCHANGED <<searchParams, searchResponse, searchLoading, shown, toasts>>

HandlePaginatedSearch_Clamped(pageNumber) ==
  /\ paginationLoading' = TRUE
  /\ requests' = Append(requests,
         NewRequest("page", searchParams,
                    IF pageNumber > totalPages THEN totalPages ELSE pageNumber))
  /\ UNCHANGED <<searchParams, searchResponse, searchLoading, shown, toasts>>

\* handleSearch up to its await: lines 81-90.  It passes the page state.
HandleSearch(in) ==
  /\ searchLoading' = TRUE
  /\ searchParams' = in
  /\ requests' = Append(requests, NewRequest("search", in, page))
  /\ UNCHANGED <<page, searchResponse, paginationLoading, shown, toasts>>

\* handlePaginatedSearch up to its await: lines 100-113
HandlePaginatedSearch(pageNumber) ==
  /\ paginationLoading' = TRUE
  /\ requests' = Append(requests, NewRequest("page", searchParams, pageNumber))
  /\ UNCHANGED <<searchParams, searchResponse, searchLoading, shown, toasts>>

\* handlePageChange: lines 129-132
HandlePageChange(newPage) ==
  /\ page' = newPage
  /\ HandlePaginatedSearch(newPage)

\* search() resolves and the awaiting handler goes on: lines 91 and 95-97 of
\* handleSearch, lines 115 and 119-121 of handlePaginatedSearch
SearchResolved(i, total) ==
  /\ requests[i].status = "pending"
  /\ requests' = [requests EXCEPT ![i].status = "ok"]
  /\ searchResponse' = <<Response(requests[i], total)>>
  /\ shown' = i
  /\ IF requests[i].kind = "search"
     THEN searchLoading' = FALSE /\ UNCHANGED paginationLoading
     ELSE paginationLoading' = FALSE /\ UNCHANGED searchLoading
  /\ UNCHANGED <<searchParams, page, toasts>>

\* search() rejects: the catch and the finally of the awaiting handler,
\* lines 92-97 and 116-121
SearchRejected(i) ==
  /\ requests[i].status = "pending"
  /\ requests' = [requests EXCEPT ![i].status = "failed"]
  /\ toasts' = toasts + 1
  /\ IF requests[i].kind = "search"
     THEN searchLoading' = FALSE /\ UNCHANGED paginationLoading
     ELSE paginationLoading' = FALSE /\ UNCHANGED searchLoading
  /\ UNCHANGED <<searchParams, page, searchResponse, shown>>

\* the results, with the pagination control, are rendered: lines 267-274
ResultsShown == ~searchLoading /\ searchResponse # <<>>

\* the pages the Pagination control of lines 280-288 lets the user ask for:
\* the numbered buttons 1..count, and first and previous when page > 1
\* (next and last lead into 1..count)
ClickablePages ==
  (1..totalPages) \cup (IF page > 1 THEN {1, page - 1} ELSE {})

\* the user submits the search form; its fields and its button are disabled
\* while searchLoading (part_007:262, SearchForm.tsx:146,268)
SubmitSearch(in) ==
  /\ mounted /\ ~searchLoading
  /\ Len(requests) < MaxRequests
  /\ HandleSearch(in)

\* the user clicks a button of the pagination control, which is rendered
\* with the results and disabled while paginationLoading
ClickPage(n) ==
  /\ mounted /\ ResultsShown /\ ~paginationLoading
  /\ Len(requests) < MaxRequests
  /\ n \in ClickablePages
  /\ HandlePageChange(n)

Init == RagInit /\ SearchInit /\ ParserIdle

\* the steps of one group of variables leave the other groups alone
RagFrame == UNCHANGED <<searchVars, parserVars>>
SearchFrame == UNCHANGED <<vars, parserVars>>
ParserFrame == UNCHANGED <<vars, searchVars>>

Next ==
  \/ \E streaming \in BOOLEAN : SubmitRag(streaming) /\ RagFrame
  \/ ResumeStream /\ RagFrame
  \/ \E i \in 1..Len(sessions) : ServerSend(i) /\ RagFrame
  \/ \E i \in 1..Len(sessions) : \E e \in Events : Dispatch(i, e) /\ RagFrame
  \/ \E i \in 1..Len(sessions) : \E kind \in {"message", "error"} :
       Discard(i, kind) /\ RagFrame
  \/ Unmount /\ RagFrame
  \/ \E i \in 1..Len(sessions) : \E resp \in RagResponses :
       RagResponseOk(i, resp) /\ RagFrame
  \/ \E i \in 1..Len(sessions) : RagResponseFail(i) /\ RagFrame

\* the RAG tab of the page
Spec == Init /\ [][Next]_allVars

\* the search tab of the page, driven through its rendered controls
SearchNext ==
  \/ \E in \in SearchInputs : SubmitSearch(in) /\ SearchFrame
  \/ \E n \in ClickablePages : ClickPage(n) /\ SearchFrame
  \/ \E i \in 1..Len(requests) : \E total \in Totals :
       SearchResolved(i, total) /\ SearchFrame
  \/ \E i \in 1..Len(requests) : SearchRejected(i) /\ SearchFrame

SpecSearch == Init /\ [][SearchNext]_allVars

\* the two search handlers called as functions, in any state and with any
\* page number, as a caller that does not go through the rendered controls
\* can call them
HandlersNext ==
  \/ \E in \in SearchInputs :
       Len(requests) < MaxCalls /\ HandleSearch(in) /\ SearchFrame
  \/ \E n \in 0..MaxPageArg :
       Len(requests) < MaxCalls /\ HandlePageChange(n) /\ SearchFrame
  \/ \E i \in 1..Len(requests) : \E total \in Totals :
       SearchResolved(i, total) /\ SearchFrame
  \/ \E i \in 1..Len(requests) : SearchRejected(i) /\ SearchFrame

SpecHandlers == Init /\ [][HandlersNext]_allVars

\* renderHighlightedSnippet called with one snippet; the call runs to its
\* return without interruption
ParserInit ==
  /\ RagInit /\ SearchInit
  /\ snippet \in Snippets
  /\ currentText = <<>> /\ parts = <<>> /\ ppc = "call"

ParserNext ==
  \/ ParseBegin /\ ParserFrame
  \/ ParseIterate /\ ParserFrame
  \/ ParseFinish /\ ParserFrame

SpecParser == ParserInit /\ [][ParserNext]_allVars /\ WF_allVars(ParserNext)

\* the whole page: the RAG tab, and the search tab the user can switch to at
\* any time (handleTabChange sets tabValue only, part_007:74-76, and both
\* tabs keep their state), with its form submitted up to MaxTabSearches times
PageNext ==
  \/ Next
  \/ \E in \in SearchInputs :
       /\ pc = "idle" /\ Len(requests) < MaxTabSearches
       /\ SubmitSearch(in) /\ SearchFrame
  \/ \E i \in 1..Len(requests) : \E total \in Totals :
       pc = "idle" /\ SearchResolved(i, total) /\ SearchFrame
  \/ \E i \in 1..Len(requests) :
       pc = "idle" /\ SearchRejected(i) /\ SearchFrame

SpecPage == Init /\ [][PageNext]_allVars

\* ------------------------------------------------------------ properties
\* the newest session, 0 when there is none
Newest == Len(sessions)

\* the connections that were opened and not yet closed
OpenConnections == {i \in 1..Len(sessions) : sessions[i].open}

\* this step ran a listener of session i on an event
HandlerRan(i) ==
  /\ sessions[i].open /\ sessions[i].msgListener /\ sessions[i].errListener
  /\ sessions'[i].queued < sessions[i].queued

\* this step is a call of handleRagQuery
Submitted == Len(sessions') > Len(sessions)

\* C1: in every reachable state at most one streaming connection is open
C1_AtMostOneOpen == Cardinality(OpenConnections) <= 1

\* C1 witness: a second connection is open after the first one was closed
C1_Witness ==
  \E i, j \in 1..Len(sessions) :
    /\ i < j
    /\ sessions[i].streaming /\ ~sessions[i].open /\ sessions[i].closeCalls = 1
    /\ sessions[j].open

\* C2: a streaming query started while an earlier connection is open closes
\* that connection exactly once and detaches both its listeners before the
\* new EventSource is constructed, and the old session ends Cancelled
C2_CancelBeforeOpen ==
  [][/\ \A i \in 1..Len(sessions) :
          (sessions[i].open /\ Submitted /\ sessions'[Len(sessions')].streaming)
            => /\ ~sessions'[i].open
               /\ sessions'[i].closeCalls = 1
               /\ ~sessions'[i].msgListener /\ ~sessions'[i].errListener
               /\ sessions'[i].phase = "Cancelled"
               /\ ~sessions'[Len(sessions')].othersOpenAtStart
     /\ \A i \in 1..Len(sessions) :
          sessions[i].phase = "Cancelled" => sessions'[i].closeCalls = 1]_vars

\* C2 witness: a streaming session cancelled by the streaming query after it
C2_Witness ==
  \E i \in 1..Len(sessions) :
    /\ i < Len(sessions)
    /\ sessions[i].streaming /\ sessions[i + 1].streaming
    /\ sessions[i].phase = "Cancelled" /\ sessions[i].closeCalls = 1
    /\ sessions[i + 1].open

\* C3: no event of a cancelled session, queued before the cancel or not,
\* changes streamingAnswer, streamingCitations or ragLoading
C3_NoFoldAfterCancel ==
  [][\A i \in 1..Len(sessions) :
       (sessions[i].phase = "Cancelled" /\ sessions'[i].queued < sessions[i].queued)
         => UNCHANGED <<streamingAnswer, streamingCitations, ragLoading>>]_vars

\* C3 witness: an event that was queued when a new submission cancelled its
\* session has been discarded, the next session being live
C3_Witness ==
  \E i \in 1..Len(sessions) :
    /\ i < Len(sessions)
    /\ sessions[i].phase = "Cancelled" /\ sessions[i].dropped
    /\ sessions[i + 1].open

\* the handler of the newest session was fed answer chunks, then one
\* citations chunk, then the sentinel
DeltasCitationsDone ==
  /\ Newest > 0 /\ sessions[Newest].streaming
  /\ obs.nrep = 1 /\ obs.after = <<>> /\ obs.last = "done"

\* C4 as claimed: after answer chunks d1..dn, one citations chunk with list L
\* and the sentinel, streamingAnswer is d1..dn concatenated, streamingCitations
\* is L and the session is Completed
C4_Claimed ==
  (DeltasCitationsDone /\ Len(obs.deltas) >= 1)
    => /\ streamingAnswer = obs.deltas
       /\ streamingCitations = obs.list
       /\ sessions[Newest].phase = "Completed"

\* C4 amended: as long as only answer chunks were folded, streamingAnswer is
\* their contents concatenated in arrival order; after d1..dn, one citations
\* chunk with content T and list L and the sentinel, streamingAnswer is T (the
\* chunk replaces the answer as well as the list), streamingCitations is L and
\* the session is Completed with its connection closed
C4_Amended ==
  /\ (Newest > 0 /\ sessions[Newest].streaming /\ obs.nrep = 0)
       => streamingAnswer = obs.deltas
  /\ DeltasCitationsDone
       => /\ streamingAnswer = obs.content
          /\ streamingCitations = obs.list
          /\ sessions[Newest].phase = "Completed"
          /\ ~sessions[Newest].open

\* C4 witness: two different deltas, a citations chunk and the sentinel were
\* folded
C4_Witness ==
  /\ DeltasCitationsDone
  /\ Len(obs.deltas) = 2 /\ obs.deltas[1] # obs.deltas[2]
  /\ obs.list # <<>>

\* C5: the chunk that carries the rewritten answer and the citation list
\* (type "citations" on the wire) sets streamingAnswer to its content,
\* whatever was appended before, and streamingCitations to its list in the
\* same step; answer chunks after it are appended to that content
C5_ReplaceThenAppend ==
  (Newest > 0 /\ sessions[Newest].streaming /\ obs.nrep >= 1)
    => /\ streamingAnswer = IF obs.after = <<>> THEN obs.content
                            ELSE Plus(obs.content, obs.after)
       /\ streamingCitations = obs.list

\* C5 witness: deltas were appended, replaced by the content of the chunk,
\* and a further delta was appended to that content
C5_Witness ==
  /\ Newest > 0 /\ sessions[Newest].streaming
  /\ obs.nrep = 1 /\ obs.content = <<"c">> /\ obs.after # <<>>
  /\ streamingAnswer = <<"c">> \o obs.after
  /\ obs.last = "answer"

\* C6: an error chunk handled by a live session closes its connection and
\* ends it Failed, and leaves streamingAnswer and streamingCitations as they
\* were
C6_ErrorKeepsPartial ==
  [][(Newest > 0 /\ HandlerRan(Newest) /\ obs'.last = "error")
       => /\ sessions'[Newest].phase = "Failed"
          /\ ~sessions'[Newest].open /\ sessions'[Newest].closeCalls = 1
          /\ UNCHANGED <<streamingAnswer, streamingCitations>>]_vars

\* C6 witness: a session failed on an error chunk with a partial answer kept
C6_Witness ==
  /\ Newest > 0 /\ sessions[Newest].phase = "Failed" /\ ~sessions[Newest].open
  /\ obs.last = "error"
  /\ streamingAnswer # <<>> /\ streamingAnswer = obs.deltas

\* C7: the sentinel is recognised before JSON.parse is tried: it ends the
\* session Completed, closes the connection and leaves streamingAnswer and
\* streamingCitations as they were
C7_SentinelCompletes ==
  [][(Newest > 0 /\ HandlerRan(Newest) /\ obs'.last = "done")
       => /\ sessions'[Newest].phase = "Completed"
          /\ ~sessions'[Newest].open /\ sessions'[Newest].closeCalls = 1
          /\ ~ragLoading'
          /\ UNCHANGED <<streamingAnswer, streamingCitations>>]_vars

\* C7 witness: the sentinel completed a session that holds an answer
C7_Witness ==
  /\ Newest > 0 /\ sessions[Newest].phase = "Completed" /\ sessions[Newest].streaming
  /\ obs.last = "done" /\ streamingAnswer # <<>>

\* C8 as claimed: a message that is neither the sentinel nor an answer,
\* citations or error chunk (invalid JSON, or JSON without a known type) ends
\* the session Failed and closes the connection
C8_Claimed ==
  [][(Newest > 0 /\ HandlerRan(Newest) /\ obs'.last \in {"invalid", "untyped"})
       => /\ sessions'[Newest].phase = "Failed"
          /\ ~sessions'[Newest].open]_vars

\* C9: a terminal session keeps its phase, and neither an event of it nor any
\* step other than a new query changes streamingAnswer or streamingCitations
\* once the newest session is terminal
C9_TerminalIsFinal ==
  [][\A i \in 1..Len(sessions) :
       sessions[i].phase \in Terminal
         => /\ sessions'[i].phase = sessions[i].phase
            /\ sessions'[i].queued < sessions[i].queued
                 => UNCHANGED <<streamingAnswer, streamingCitations>>
            /\ (i = Newest /\ ~Submitted)
                 => UNCHANGED <<streamingAnswer, streamingCitations>>]_vars

\* C9 witness: an event arrived for a session that had completed or failed
\* by its own handlers, and was discarded
C9_Witness ==
  \E i \in 1..Len(sessions) :
    /\ sessions[i].phase \in {"Completed", "Failed"}
    /\ sessions[i].streaming /\ sessions[i].dropped
    /\ streamingAnswer # <<>>

\* C10: close() is called at most once on a connection, and a cleanup (page
\* unmount, or the cleanup at the start of a new query) that finds a terminal
\* session leaves that session as it is; an unmount when every streaming
\* session is terminal changes nothing else at all
C10_CleanupIdempotent ==
  [][/\ \A i \in 1..Len(sessions') : sessions'[i].closeCalls <= 1
     /\ \A i \in 1..Len(sessions) :
          (sessions[i].phase \in Terminal /\ (Submitted \/ mounted' # mounted))
            => sessions'[i] = sessions[i]
     /\ (mounted' # mounted
          /\ \A i \in 1..Len(sessions) :
               sessions[i].streaming => sessions[i].phase \in Terminal)
          => UNCHANGED <<ragLoading, isStreaming, ragResponse, streamingAnswer,
                         streamingCitations, streamCleanupRef, sessions, pc, obs>>]_vars

\* C10 witness: the page was unmounted after its stream had ended by itself
C10_Witness ==
  /\ ~mounted
  /\ \E i \in 1..Len(sessions) :
       /\ sessions[i].streaming /\ sessions[i].phase \in {"Completed", "Failed"}
       /\ sessions[i].closeCalls = 1

HasPrefix(s, pat) == Len(s) >= Len(pat) /\ SubSeq(s, 1, Len(pat)) = pat

\* the markers of s from left to right: "o" for <mark>, "c" for </mark>
RECURSIVE Markers(_)
Markers(s) ==
  IF s = <<>> THEN <<>>
  ELSE IF HasPrefix(s, MarkOpen)
  THEN <<"o">> \o Markers(SubSeq(s, Len(MarkOpen) + 1, Len(s)))
  ELSE IF HasPrefix(s, MarkClose)
  THEN <<"c">> \o Markers(SubSeq(s, Len(MarkClose) + 1, Len(s)))
  ELSE Markers(Tail(s))

\* s with every marker taken out
RECURSIVE StripMarkers(_)
StripMarkers(s) ==
  IF s = <<>> THEN <<>>
  ELSE IF HasPrefix(s, MarkOpen)
  THEN StripMarkers(SubSeq(s, Len(MarkOpen) + 1, Len(s)))
  ELSE IF HasPrefix(s, MarkClose)
  THEN StripMarkers(SubSeq(s, Len(MarkClose) + 1, Len(s)))
  ELSE <<Head(s)>> \o StripMarkers(Tail(s))

\* the markers of s are start, end, start, end, ...
WellFormed(s) ==
  LET m == Markers(s)
  IN /\ Len(m) % 2 = 0
     /\ \A k \in 1..Len(m) : m[k] = (IF k % 2 = 1 THEN "o" ELSE "c")

\* a start-marker with no end-marker after it, or an end-marker with no
\* start-marker before it
HasUnmatchedMarker(s) ==
  LET m == Markers(s)
  IN \E k \in 1..Len(m) :
       \/ m[k] = "o" /\ \A j \in (k + 1)..Len(m) : m[j] # "c"
       \/ m[k] = "c" /\ \A j \in 1..(k - 1) : m[j] # "o"

\* the text fields of the segments, concatenated in order
RECURSIVE ConcatText(_)
ConcatText(ps) == IF ps = <<>> THEN <<>> ELSE Head(ps).text \o ConcatText(Tail(ps))

\* the one plain segment that holds all of s
WholeAsPlain(s) == <<[text |-> s, highlighted |-> FALSE]>>

\* C12 as claimed: for a snippet whose markers are well-formed pairs, the
\* texts of the returned segments concatenate to the snippet exactly
C12_Claimed ==
  (ppc = "done" /\ WellFormed(snippet)) => ConcatText(parts) = snippet

\* C12: for a snippet whose markers are well-formed pairs, the texts of the
\* returned segments concatenate to the snippet with its markers taken out,
\* which is the snippet itself only when it holds no marker
C12_Amended ==
  (ppc = "done" /\ WellFormed(snippet))
    => /\ ConcatText(parts) = StripMarkers(snippet)
       /\ (ConcatText(parts) = snippet) <=> (Markers(snippet) = <<>>)

\* C12 witness: a snippet with two well-formed pairs, each around some text,
\* was parsed
C12_Witness ==
  /\ ppc = "done" /\ WellFormed(snippet)
  /\ Len(Markers(snippet)) = 4
  /\ \E i, j \in 1..Len(parts) :
       /\ i < j
       /\ parts[i].highlighted /\ parts[i].text # <<>>
       /\ parts[j].highlighted /\ parts[j].text # <<>>

\* C13 as claimed: a snippet with an unmatched marker is returned as one
\* plain segment that holds the whole snippet
C13_Claimed ==
  (ppc = "done" /\ HasUnmatchedMarker(snippet)) => parts = WholeAsPlain(snippet)

\* C13: a snippet that holds markers of one kind only (start-markers and no
\* end-marker, or end-markers and no start-marker) is returned as one plain
\* segment that holds the whole snippet; a snippet that holds a marker of
\* each kind is never returned so
C13_Amended ==
  LET m == Markers(snippet)
      opens == \E k \in 1..Len(m) : m[k] = "o"
      closes == \E k \in 1..Len(m) : m[k] = "c"
  IN ppc = "done"
       => /\ (m # <<>> /\ ~(opens /\ closes)) => parts = WholeAsPlain(snippet)
          /\ (opens /\ closes) => parts # WholeAsPlain(snippet)

\* C13 witness: a snippet with text and two start-markers, and no
\* end-marker, came back as one plain segment
C13_Witness ==
  /\ ppc = "done"
  /\ Markers(snippet) = <<"o", "o">>
  /\ StripMarkers(snippet) # <<>>
  /\ Len(parts) = 1 /\ ~parts[1].highlighted /\ parts[1].text = snippet

\* C14: every call of the parser returns: each iteration of its loop leaves
\* a strictly shorter currentText, and the call reaches its return
C14_Terminates ==
  /\ [][(ppc = "loop" /\ ppc' = "loop") => Len(currentText') < Len(currentText)]_allVars
  /\ <>(ppc = "done")

\* C14 witness: the parser returned for a snippet that starts with an
\* end-marker, then nests a start-marker in a start-marker
C14_Witness ==
  /\ ppc = "done"
  /\ Len(Markers(snippet)) >= 4
  /\ SubSeq(Markers(snippet), 1, 3) = <<"c", "o", "o">>
  /\ \E i \in 1..Len(parts) : parts[i].highlighted

\* ------------------------------------------- properties of the search
\* this step is a call of search(), and Issued is the request it sends
NewCall == Len(requests') = Len(requests) + 1
Issued == requests'[Len(requests')]

\* this step is the end of the pending call i, with the given outcome
Ended(i, outcome) ==
  requests[i].status = "pending" /\ requests'[i].status = outcome

\* C15 as claimed: the request of every new search carries page 1
C15_Claimed ==
  [][(NewCall /\ Issued.kind = "search") => Issued.page = 1]_allVars

\* C16: when the call of a new search or of a page change fails, the handler
\* reports the error by a toast and leaves searchResponse as it was; the
\* results that were displayed stay displayed (after a failed new search the
\* spinner gives way to them again)
C16_FailureKeepsResults ==
  [][\A i \in 1..Len(requests) :
       Ended(i, "failed")
         => /\ searchResponse' = searchResponse /\ shown' = shown
            /\ toasts' = toasts + 1
            /\ IF requests[i].kind = "search"
               THEN ResultsShown' <=> (searchResponse # <<>>)
               ELSE ResultsShown' <=> ResultsShown]_allVars

\* C16 witness: a new search and a page change failed after the displayed
\* page had arrived, and that page is on display
C16_Witness ==
  /\ ResultsShown /\ shown > 0 /\ toasts >= 2
  /\ \E i, j \in 1..Len(requests) :
       /\ i > shown /\ requests[i].kind = "search" /\ requests[i].status = "failed"
       /\ j > shown /\ requests[j].kind = "page" /\ requests[j].status = "failed"

C19_ForwardedUnclamped ==
  [][/\ (NewCall /\ Issued.kind = "page")
          => /\ Issued.page = page'
             /\ Issued.query = searchParams.query
     /\ \A i \in 1..Len(requests) :
          (requests[i].kind = "page" /\ Ended(i, "ok"))
            => /\ shown' = i /\ ~paginationLoading'
               /\ searchResponse' # <<>>
               /\ searchResponse'[1].query = requests[i].query
               /\ Len(searchResponse'[1].results)
                    = ItemsOnPage(searchResponse'[1].total, requests[i].page, pageSize)
               /\ \A k \in 1..Len(searchResponse'[1].results) :
                    searchResponse'[1].results[k].page = requests[i].page
     /\ \A i \in 1..Len(requests) :
          (requests[i].kind = "page" /\ Ended(i, "failed"))
            => ~paginationLoading' /\ toasts' = toasts + 1]_allVars

\* C19 witness: a page beyond totalPages was asked for, and the empty page
\* the backend returned for it is on display
C19_Witness ==
  /\ shown > 0 /\ ResultsShown
  /\ requests[shown].kind = "page"
  /\ requests[shown].page > requests[shown].pagesAtCall
  /\ requests[shown].page > totalPages
  /\ searchResponse[1].results = <<>>

C21_Claimed ==
  [][\A i \in 1..Len(sessions) :
       (sessions[i].open /\ (Submitted \/ NewCall)) => ~sessions'[i].open]_allVars

\* what the RAG tab renders under its form, lines 331-361: the spinner, the
\* answer of the streaming state, the answer of ragResponse, or nothing; the
\* test reads streamingCitations.length, which throws on undefined
RagDisplay ==
  IF ragLoading THEN [shows |-> "spinner"]
  ELSE IF isStreaming /\ streamingAnswer \notin {<<>>, undefined}
  THEN [shows |-> "streaming", answer |-> streamingAnswer,
        citations |-> streamingCitations]
  ELSE IF isStreaming /\ streamingCitations = undefined THEN [shows |-> "throws"]
  ELSE IF isStreaming /\ Len(streamingCitations) > 0
  THEN [shows |-> "streaming", answer |-> streamingAnswer,
        citations |-> streamingCitations]
  ELSE IF ragResponse # <<>>
  THEN [shows |-> "response", answer |-> ragResponse[1].answer,
        citations |-> ragResponse[1].citations]
  ELSE [shows |-> "nothing"]

\* the newest query is a non-streaming one whose request succeeded, and the
\* page is mounted
NonStreamingDone ==
  /\ mounted /\ Newest > 0
  /\ ~sessions[Newest].streaming /\ sessions[Newest].phase = "Completed"

\* C22 as claimed: after a non-streaming query has succeeded, the answer and
\* the citations on display are those of the response, and they are held in
\* the state the streaming path accumulates into
C22_Claimed ==
  NonStreamingDone
    => /\ ragResponse # <<>>
       /\ RagDisplay.shows = "response"
       /\ streamingAnswer = ragResponse[1].answer
       /\ streamingCitations = ragResponse[1].citations

\* C22: a non-streaming query never has a connection and goes from
\* Connecting to Completed or Failed without an event handled; after it has
\* succeeded, the answer and the citations on display are those of the
\* response, held in ragResponse, while streamingAnswer and
\* streamingCitations stay empty
C22_Amended ==
  /\ \A i \in 1..Len(sessions) :
       ~sessions[i].streaming
         => /\ ~sessions[i].open /\ sessions[i].closeCalls = 0
            /\ sessions[i].phase \in {"Connecting", "Completed", "Failed"}
            /\ sessions[i].inflight <=> (sessions[i].phase = "Connecting")
  /\ NonStreamingDone
       => /\ ragResponse \in {<<r>> : r \in RagResponses}
          /\ RagDisplay = [shows |-> "response", answer |-> ragResponse[1].answer,
                           citations |-> ragResponse[1].citations]
          /\ streamingAnswer = <<>> /\ streamingCitations = <<>>

\* C22 witness: a non-streaming query succeeded after a streaming one, and
\* its response is on display
C22_Witness ==
  /\ NonStreamingDone /\ Newest = 2 /\ sessions[1].streaming
  /\ RagDisplay.shows = "response"

\* C23: the request of a page change carries the query, the search type and
\* the document filter of the last call of handleSearch, the page size and
\* the highlight flag of the page state, and the page number asked for
C23_StoredParameters ==
  [][(NewCall /\ Issued.kind = "page")
       => /\ \E k \in 1..Len(requests) :
               /\ requests[k].kind = "search"
               /\ \A j \in (k + 1)..Len(requests) : requests[j].kind # "search"
               /\ Issued.query = requests[k].query
               /\ Issued.searchType = requests[k].searchType
               /\ Issued.documentIds = requests[k].documentIds
               /\ Issued.pageSize = requests[k].pageSize
               /\ Issued.includeHighlight = requests[k].includeHighlight
          /\ Issued.page = page'
          /\ Issued.pageSize = pageSize
          /\ Issued.includeHighlight = includeHighlight]_allVars

\* C23 witness: after two searches with different queries, a page of the
\* second one was asked for and its request carries the second query
C23_Witness ==
  \E i, j, k \in 1..Len(requests) :
    /\ i < j /\ j < k
    /\ requests[i].kind = "search" /\ requests[j].kind = "search"
    /\ requests[i].query # requests[j].query
    /\ requests[k].kind = "page"
    /\ requests[k].query = requests[j].query
    /\ requests[k].documentIds = requests[j].documentIds
    /\ requests[k].page # requests[j].page

\* no call of search() is awaited
NoneInFlight == \A i \in 1..Len(requests) : requests[i].status # "pending"

\* C24 as claimed: whenever no search request is in flight, the results on
\* display came from a request that carried the stored searchParams
C24_Claimed ==
  (NoneInFlight /\ searchResponse # <<>>)
    => /\ requests[shown].query = searchParams.query
       /\ requests[shown].searchType = searchParams.searchType
       /\ requests[shown].documentIds = searchParams.documentIds

\* C29 as claimed: whenever no search request is in flight, the page number
\* the pagination control shows is the page number of the request that
\* produced the results on display
C29_Claimed ==
  (NoneInFlight /\ searchResponse # <<>>) => requests[shown].page = page

\* the 0-based positions of s at which pat occurs
OccurrencesOf(s, pat) ==
  {i \in 0..(Len(s) - Len(pat)) : SubSeq(s, i + 1, i + Len(pat)) = pat}

\* the texts of s that lie strictly between a start-marker and the first
\* end-marker after that start-marker
PairedTexts(s) ==
  UNION {{SubSeq(s, i + Len(MarkOpen) + 1, j) :
            j \in {c \in OccurrencesOf(s, MarkClose) :
                     /\ c >= i + Len(MarkOpen)
                     /\ \A d \in OccurrencesOf(s, MarkClose) :
                          d >= i + Len(MarkOpen) => c <= d}} :
         i \in OccurrencesOf(s, MarkOpen)}

\* C25 as claimed: every highlighted segment the parser returns is the text
\* strictly between a start-marker of the snippet and the first end-marker
\* after that start-marker
C25_Claimed ==
  ppc = "done"
    => \A k \in 1..Len(parts) :
         parts[k].highlighted => parts[k].text \in PairedTexts(snippet)

\* C26: a streaming session that is terminal has its connection closed, by
\* one call of close(), and both listeners detached; once the handler of the
\* newest session was fed the sentinel, an error chunk, an unparsable message
\* or a transport error, its connection is closed; every session older than
\* the newest query is closed; and no connection is open once the page is
\* unmounted
C26_ClosedOnEveryExit ==
  /\ \A i \in 1..Len(sessions) :
       (sessions[i].streaming /\ sessions[i].phase \in Terminal)
         => /\ ~sessions[i].open /\ sessions[i].closeCalls = 1
            /\ ~sessions[i].msgListener /\ ~sessions[i].errListener
  /\ (/\ Newest > 0 /\ sessions[Newest].streaming
      /\ obs.last \in {"done", "error", "invalid", "transport"})
       => ~sessions[Newest].open /\ sessions[Newest].phase \in Terminal
  /\ \A i \in 1..Len(sessions) : i < Newest => ~sessions[i].open
  /\ ~mounted => OpenConnections = {}

\* C26 witness: the page was unmounted while the newest stream was open and
\* an earlier one had been closed by the query after it
C26_Witness ==
  /\ ~mounted /\ Newest = 2
  /\ sessions[1].streaming /\ sessions[1].phase = "Cancelled"
  /\ sessions[2].streaming /\ sessions[2].phase = "Cancelled"
  /\ sessions[2].closeCalls = 1 /\ OpenConnections = {}

\* C27: while the page is mounted, the accumulated answer is the concatenation
\* of the answer chunks the newest query was fed and the citation list is
\* empty, until a citations chunk of the newest query replaces them; right
\* after the query began both are empty, and no response of an earlier query
\* is held while the newest query streams
C27_ResetBeforeFold ==
  (mounted /\ Newest > 0)
    => /\ obs.nrep = 0
            => streamingAnswer = obs.deltas /\ streamingCitations = <<>>
       /\ obs.nrep = 1 => streamingCitations = obs.list
       /\ sessions[Newest].streaming => ragResponse = <<>>

\* C27 witness: a second streaming query, begun after the stream of the first
\* was cancelled, has folded an answer chunk
C27_Witness ==
  /\ mounted /\ Newest = 2
  /\ sessions[1].streaming /\ sessions[1].phase = "Cancelled"
  /\ sessions[2].streaming /\ sessions[2].phase = "Streaming"
  /\ obs.nrep = 0 /\ obs.deltas # <<>> /\ streamingAnswer = obs.deltas

\* C28 as claimed: while the page is mounted, ragLoading is false once the
\* newest streaming session was ended by its own handlers (sentinel, error
\* chunk, parse failure, transport error)
C28_Claimed ==
  (/\ mounted /\ Newest > 0 /\ sessions[Newest].streaming
   /\ sessions[Newest].phase \in {"Completed", "Failed"})
    => ~ragLoading

\* the texts enclosed by the marker pairs of s, from left to right: acc is
\* the text read since the start-marker when inside holds
RECURSIVE MarkedTexts(_, _, _)
MarkedTexts(s, inside, acc) ==
  IF s = <<>> THEN <<>>
  ELSE IF HasPrefix(s, MarkOpen)
  THEN MarkedTexts(SubSeq(s, Len(MarkOpen) + 1, Len(s)), TRUE, <<>>)
  ELSE IF HasPrefix(s, MarkClose)
  THEN (IF inside THEN <<acc>> ELSE <<>>)
         \o MarkedTexts(SubSeq(s, Len(MarkClose) + 1, Len(s)), FALSE, <<>>)
  ELSE MarkedTexts(Tail(s), inside, IF inside THEN Append(acc, Head(s)) ELSE acc)

\* the texts of the highlighted segments of ps, in order
RECURSIVE HighlightedTexts(_)
HighlightedTexts(ps) ==
  IF ps = <<>> THEN <<>>
  ELSE (IF Head(ps).highlighted THEN <<Head(ps).text>> ELSE <<>>)
         \o HighlightedTexts(Tail(ps))

\* C30: for a snippet whose markers are well-formed pairs, the highlighted
\* segments returned are, in order, the texts between the markers of each
\* pair, one per pair; the texts of all segments concatenate to the snippet
\* with its markers taken out; and no plain segment is empty
C30_OneSegmentPerPair ==
  (ppc = "done" /\ WellFormed(snippet))
    => /\ HighlightedTexts(parts) = MarkedTexts(snippet, FALSE, <<>>)
       /\ 2 * Len(HighlightedTexts(parts)) = Len(Markers(snippet))
       /\ ConcatText(parts) = StripMarkers(snippet)
       /\ \A k \in 1..Len(parts) : ~parts[k].highlighted => parts[k].text # <<>>

\* C30 witness: a snippet that is two adjacent pairs around different texts
\* came back as two highlighted segments and nothing else
C30_Witness ==
  /\ ppc = "done" /\ WellFormed(snippet)
  /\ Len(Markers(snippet)) = 4
  /\ Len(parts) = 2
  /\ parts[1].highlighted /\ parts[2].highlighted
  /\ parts[1].text # <<>> /\ parts[2].text # <<>> /\ parts[1].text # parts[2].text

====
